---- MODULE Spec2Model ----
(***************************************************************************)
(* Model of src/init_repo.py: the one-shot repository initializer.         *)
(*                                                                         *)
(* Strings are sequences of atoms.  An atom is a fixed piece of text       *)
(* ("{", "project", "_name", "}", "/", ".", ...), chosen so that a         *)
(* concatenation of atoms factors in one way only; substring search on the *)
(* text and subsequence search on the atoms then agree.  The token         *)
(* "{project_name}" is << "{", "project", "_name", "}" >>.                 *)
(*                                                                         *)
(* Spec is one run of init_repo, statement by statement, on a filesystem   *)
(* tree; SubstSpec applies update_placeholders to bounded strings.         *)
(***************************************************************************)
EXTENDS Integers, Sequences, FiniteSets, TLC

VARIABLES
    \* ---- the run of init_repo -------------------------------------------
    args,          \* the four optional arguments of init_repo (None or a string)
    cwdName,       \* Path.cwd().name
    git,           \* the environment: is git installed, and its global config
    project_info,  \* the dict built by init_repo (partial while it is built)
    pc,            \* position in init_repo
    err,           \* the exception that ended the run, or "none"
    nodes,         \* the filesystem tree under the working directory
    nodes0,        \* the tree as it was when the run started
    gen,           \* the state of the running path.rglob("*") generator
    calls,         \* node -> number of rename calls issued with it as source
    moves,         \* node -> number of rename calls that changed its own path
    written,       \* nodes whose file was written by update_file
    stale,         \* the paths rename was called on when no entry had that path
    lookups,       \* the keys param_from_git was invoked with
    finished,      \* the loops of init_repo that ran to their end
    \* ---- update_placeholders as a pure function --------------------------
    string,        \* the input string
    order,         \* the order in which the keys are applied in "permuted"
    once,          \* update_placeholders(string, project_info)
    twice,         \* update_placeholders(once, project_info)
    permuted,      \* the replacements applied in "order"
    sphase         \* "run" | "in" | "applied" | "reapplied" | "reordered"

vars == << args, cwdName, git, project_info, pc, err, nodes, nodes0, gen,
           calls, moves, written, stale, lookups, finished,
           string, order, once, twice, permuted, sphase >>

runVars == << args, cwdName, git, pc, err, nodes, nodes0, gen,
              calls, moves, written, stale, lookups, finished >>

substVars == << string, order, once, twice, permuted, sphase >>

\* Python's None: one reserved atom that no text holds, so None is different
\* from every string, the empty one included.
None == << "<None>" >>

-----------------------------------------------------------------------------
(* Strings *)

\* str.replace(old, new, 1): the first occurrence only.
RECURSIVE ReplaceFirst(_, _, _)
ReplaceFirst(s, old, new) ==
    IF Len(s) < Len(old) THEN s
    ELSE IF SubSeq(s, 1, Len(old)) = old
         THEN new \o SubSeq(s, Len(old) + 1, Len(s))
         ELSE << s[1] >> \o ReplaceFirst(Tail(s), old, new)

\* str.replace(old, new) for a non-empty old: every non-overlapping
\* occurrence, leftmost first.
RECURSIVE Replace(_, _, _)
Replace(s, old, new) ==
    IF Len(s) < Len(old) THEN s
    ELSE IF SubSeq(s, 1, Len(old)) = old
         THEN new \o Replace(SubSeq(s, Len(old) + 1, Len(s)), old, new)
         ELSE << s[1] >> \o Replace(Tail(s), old, new)

\* The dict's keys in insertion order: the order in which init_repo assigns them.
Keys == << "project_name", "package_name", "user_name", "user_email" >>

KeySet == { Keys[i] : i \in 1..Len(Keys) }

\* The text of a key, in atoms.
KeyText(k) ==
    CASE k = "project_name" -> << "project", "_name" >>
      [] k = "package_name" -> << "package", "_name" >>
      [] k = "user_name"    -> << "user", "_name" >>
      [] k = "user_email"   -> << "user", "_email" >>

\* f"{{{placeholder}}}"
Token(k) == << "{" >> \o KeyText(k) \o << "}" >>

\* The loop of update_placeholders over the keys in the order ks.
RECURSIVE ReplaceInOrder(_, _, _)
ReplaceInOrder(s, info, ks) ==
    IF ks = << >> THEN s
    ELSE ReplaceInOrder(Replace(s, Token(Head(ks)), info[Head(ks)]), info, Tail(ks))

\* The loop returning from inside its body: only the first key is applied.
update_placeholders_first_key(s, info) ==
    Replace(s, Token(Keys[1]), info[Keys[1]])

\* dict.items() iterates in insertion order.
update_placeholders(s, info) == ReplaceInOrder(s, info, Keys)

\* s contains sub as a substring.
Contains(s, sub) ==
    \E i \in 1..(Len(s) - Len(sub) + 1) : SubSeq(s, i, i + Len(sub) - 1) = sub

HasToken(s) == \E k \in KeySet : Contains(s, Token(k))

Braces == { "{", "}" }

HasBrace(s) == \E i \in 1..Len(s) : s[i] \in Braces

\* Every brace of s is the opening or closing brace of one of the four tokens.
RECURSIVE BracesOnlyInTokens(_)
BracesOnlyInTokens(s) ==
    IF s = << >> THEN TRUE
    ELSE IF \E k \in KeySet : Len(s) >= Len(Token(k)) /\ SubSeq(s, 1, Len(Token(k))) = Token(k)
         THEN BracesOnlyInTokens(SubSeq(s, 5, Len(s)))
         ELSE s[1] \notin Braces /\ BracesOnlyInTokens(Tail(s))

-----------------------------------------------------------------------------
(* Parameter resolution *)

\* if_none_else without its test: the first argument, None or not.
if_none_else_unchecked(a, b) == a

if_none_else(a, b) == IF a = None THEN b ELSE a

\* str.lower(), atom by atom.
LowerAtom(a) ==
    CASE a = "My" -> "my"
      [] a = "Project" -> "project"
      [] OTHER -> a

Lower(s) == [i \in 1..Len(s) |-> LowerAtom(s[i])]

Whitespace == { " ", "\n" }

\* str.strip(): leading and trailing whitespace removed.
RECURSIVE LStrip(_)
LStrip(s) == IF s # << >> /\ Head(s) \in Whitespace THEN LStrip(Tail(s)) ELSE s

RECURSIVE RStrip(_)
RStrip(s) ==
    IF s # << >> /\ s[Len(s)] \in Whitespace THEN RStrip(SubSeq(s, 1, Len(s) - 1)) ELSE s

Strip(s) == RStrip(LStrip(s))

\* A byte sequence that is not UTF-8 holds this atom.
InvalidByte == "\\xff"

GitKeys == { "user.name", "user.email" }

\* subprocess.run(["git", "config", "--global", key], check=..., capture_output=True)
\* in the environment g: git that is not installed cannot be started; an
\* unset key makes git exit with status 1; check=True turns a non-zero status
\* into CalledProcessError.
run(g, key, check) ==
    IF ~g.installed
    THEN [raised |-> "FileNotFoundError", returncode |-> 1, stdout |-> << >>]
    ELSE IF g.config[key] = None
         THEN [raised |-> IF check THEN "CalledProcessError" ELSE "none",
               returncode |-> 1, stdout |-> << >>]
         ELSE [raised |-> "none", returncode |-> 0, stdout |-> g.config[key]]

\* param_from_git with the failure to start git swallowed.
param_from_git_swallowing(g, key) ==
    LET process == run(g, key, TRUE) IN
    IF process.raised # "none" THEN [raised |-> "none", value |-> None]
    ELSE [raised |-> "none", value |-> Strip(process.stdout)]

\* The outcome of param_from_git(key): the exception it raises, or "none" and
\* the value it returns.
param_from_git(g, key) ==
    LET process == run(g, key, TRUE) IN
    IF process.raised # "none" THEN [raised |-> process.raised, value |-> None]
    ELSE IF process.returncode = 0
         THEN IF \E i \in 1..Len(process.stdout) : process.stdout[i] = InvalidByte
              THEN [raised |-> "UnicodeDecodeError", value |-> None]
              ELSE [raised |-> "none", value |-> Strip(process.stdout)]
         ELSE [raised |-> "none", value |-> None]

-----------------------------------------------------------------------------
(* The filesystem *)

\* A tree is a function from node numbers to records
\*   [parent, name, kind, data, alive];
\* parent 0 is the working directory.  A path is a sequence of names, a name
\* a string.  The contents of a file that is not text is Binary.
Binary == << "<binary>" >>

Missing == 0 - 1

Children(ns, d) == { n \in DOMAIN ns : ns[n].alive /\ ns[n].parent = d }

RECURSIVE ResolveFrom(_, _, _)
ResolveFrom(ns, d, path) ==
    IF path = << >> THEN d
    ELSE IF d # 0 /\ ns[d].kind # "dir" THEN Missing
    ELSE LET hit == { n \in Children(ns, d) : ns[n].name = Head(path) } IN
         IF hit = {} THEN Missing
         ELSE ResolveFrom(ns, CHOOSE n \in hit : TRUE, Tail(path))

\* The node a relative path names, or Missing.
Resolve(ns, path) == ResolveFrom(ns, 0, path)

RECURSIVE PathOf(_, _)
PathOf(ns, n) ==
    IF n = 0 THEN << >> ELSE Append(PathOf(ns, ns[n].parent), ns[n].name)

\* n is d or lies below d.
RECURSIVE IsBelow(_, _, _)
IsBelow(ns, n, d) ==
    IF n = d THEN TRUE ELSE IF n = 0 THEN FALSE ELSE IsBelow(ns, ns[n].parent, d)

\* str(path): the names joined by "/".
RECURSIVE Join(_)
Join(path) ==
    IF path = << >> THEN << >>
    ELSE IF Len(path) = 1 THEN path[1]
    ELSE path[1] \o << "/" >> \o Join(Tail(path))

\* The names of a path given as a string.
RECURSIVE Split(_)
Split(s) ==
    IF \E i \in 1..Len(s) : s[i] = "/"
    THEN LET i == CHOOSE j \in 1..Len(s) : s[j] = "/" /\ \A h \in 1..(j - 1) : s[h] # "/"
         IN << SubSeq(s, 1, i - 1) >> \o Split(SubSeq(s, i + 1, Len(s)))
    ELSE << s >>

\* The atoms whose text starts with a dot.
Extensions == { ".py", ".txt", ".md" }

DotAtoms == { "." } \cup Extensions

\* str.startswith(".")
StartsWithDot(s) == s # << >> /\ s[1] \in DotAtoms

\* PurePath.suffix of a name: the last dot and what follows it, unless the
\* dot is the first character of the name.
Suffix(name) ==
    IF Len(name) >= 2 /\ name[Len(name)] \in Extensions THEN << name[Len(name)] >> ELSE << >>

\* os.rename(src, target) on the tree ns (POSIX): the exception raised, or
\* "none" and the tree after it.
Rename(ns, src, target) ==
    LET dst == Split(target)
        s == Resolve(ns, src)
        dparent == Resolve(ns, SubSeq(dst, 1, Len(dst) - 1))
        d == Resolve(ns, dst)
        moved == [ns EXCEPT ![s].parent = dparent, ![s].name = dst[Len(dst)]]
    IN  IF s = Missing THEN [raised |-> "FileNotFoundError", nodes |-> ns]
        ELSE IF target = << >> THEN [raised |-> "FileNotFoundError", nodes |-> ns]
        ELSE IF \E i \in 1..Len(dst) : dst[i] = << >> THEN [raised |-> "OSError", nodes |-> ns]
        ELSE IF dparent = Missing THEN [raised |-> "FileNotFoundError", nodes |-> ns]
        ELSE IF dparent # 0 /\ ns[dparent].kind # "dir"
             THEN [raised |-> "NotADirectoryError", nodes |-> ns]
        ELSE IF d = s THEN [raised |-> "none", nodes |-> ns]
        ELSE IF IsBelow(ns, dparent, s) THEN [raised |-> "OSError", nodes |-> ns]
        ELSE IF d = Missing THEN [raised |-> "none", nodes |-> moved]
        ELSE IF ns[s].kind = "file" /\ ns[d].kind = "dir"
             THEN [raised |-> "IsADirectoryError", nodes |-> ns]
        ELSE IF ns[s].kind = "dir" /\ ns[d].kind = "file"
             THEN [raised |-> "NotADirectoryError", nodes |-> ns]
        ELSE IF ns[s].kind = "dir" /\ Children(ns, d) # {}
             THEN [raised |-> "OSError", nodes |-> ns]
        ELSE [raised |-> "none", nodes |-> [moved EXCEPT ![d].alive = FALSE]]

-----------------------------------------------------------------------------
(* init_repo *)

\* update_file(filepath, project_info) on the file node n: reading a file
\* that is not text raises; otherwise the file is written back substituted.
update_file(ns, n, info) ==
    IF ns[n].data = Binary
    THEN [raised |-> "UnicodeDecodeError", nodes |-> ns]
    ELSE [raised |-> "none",
          nodes |-> [ns EXCEPT ![n].data = update_placeholders(ns[n].data, info)]]

\* path.rglob("*") is a generator.  It yields the entries of a directory from
\* one listing of it (Select), and lists the directory again for its
\* subdirectories only when all those entries have been consumed (Descend).
\* The order of the entries of a listing, and of the directories among each
\* other, is the library's and the filesystem's.
NoGen == [toSelect |-> {}, toDescend |-> {}, yielded |-> {}]

NewGen == [toSelect |-> { << >> }, toDescend |-> {}, yielded |-> {}]

\* The entries of the directory D in the tree ns, as paths.
Entries(ns, D) ==
    { Append(D, ns[n].name) : n \in Children(ns, Resolve(ns, D)) }

\* The subdirectories of D, listed when the generator descends into D.
Subdirectories(D) ==
    { Append(D, nodes[n].name) :
        n \in { m \in Children(nodes, Resolve(nodes, D)) : nodes[m].kind = "dir" } }

IsDir(ns, D) ==
    LET d == Resolve(ns, D) IN d # Missing /\ (d = 0 \/ ns[d].kind = "dir")

\* Where init_repo.py lies: Path(__file__).
ScriptPath == << << "init_repo", ".py" >> >>

\* The literal defaults of lines 113 and 118.
FallbackName == << "First", " ", "Last" >>

FallbackEmail == << "name", " ", "@", " ", "email.com" >>

\* Lines 104-109: project_name and package_name.
AssignNames ==
    /\ pc = "start"
    /\ LET name == if_none_else(args.project_name, Lower(cwdName)) IN
       project_info' =
           [k \in { "project_name", "package_name" } |->
               IF k = "project_name" THEN name
               ELSE if_none_else(args.package_name,
                                 Replace(name, << "-" >>, << "_" >>))]
    /\ pc' = "user_name"
    /\ UNCHANGED << finished, args, cwdName, git, err, nodes, nodes0, gen, calls, moves,
                    written, stale, lookups, substVars >>

\* Lines 111-114.  Python evaluates the arguments of a call before the call:
\* param_from_git("user.name") runs whether user_name was given or not.
AssignUserName ==
    /\ pc = "user_name"
    /\ lookups' = lookups \cup { "user.name" }
    /\ LET got == param_from_git(git, "user.name") IN
       IF got.raised # "none"
       THEN /\ pc' = "failed"
            /\ err' = got.raised
            /\ UNCHANGED project_info
       ELSE /\ pc' = "user_email"
            /\ project_info' =
                   project_info @@
                   ("user_name" :> if_none_else(args.user_name,
                                                if_none_else(got.value, FallbackName)))
            /\ UNCHANGED err
    /\ UNCHANGED << finished, args, cwdName, git, nodes, nodes0, gen, calls, moves,
                    written, stale, substVars >>

\* Lines 116-119, and the creation of the generator of line 123.
AssignUserEmail ==
    /\ pc = "user_email"
    /\ lookups' = lookups \cup { "user.email" }
    /\ LET got == param_from_git(git, "user.email") IN
       IF got.raised # "none"
       THEN /\ pc' = "failed"
            /\ err' = got.raised
            /\ UNCHANGED << project_info, gen >>
       ELSE /\ pc' = "content"
            /\ project_info' =
                   project_info @@
                   ("user_email" :> if_none_else(args.user_email,
                                                 if_none_else(got.value, FallbackEmail)))
            /\ gen' = NewGen
            /\ UNCHANGED err
    /\ UNCHANGED << finished, args, cwdName, git, nodes, nodes0, calls, moves,
                    written, stale, substVars >>

InLoop == pc \in { "content", "path" }

\* The generator lists the directory D and will yield its entries.  A
\* directory that is gone makes scandir raise FileNotFoundError, which the
\* library lets through in some versions and swallows in others.
Select(D) ==
    /\ InLoop
    /\ gen.yielded = {}
    /\ D \in gen.toSelect
    /\ IF IsDir(nodes, D)
       THEN /\ gen' = [toSelect |-> gen.toSelect \ { D },
                       toDescend |-> gen.toDescend \cup { D },
                       yielded |-> Entries(nodes, D)]
            /\ UNCHANGED << pc, err >>
       ELSE \E swallowed \in BOOLEAN :
              IF swallowed
              THEN /\ gen' = [gen EXCEPT !.toSelect = @ \ { D }]
                   /\ UNCHANGED << pc, err >>
              ELSE /\ pc' = "failed"
                   /\ err' = "FileNotFoundError"
                   /\ UNCHANGED gen
    /\ UNCHANGED << finished, args, cwdName, git, project_info, nodes, nodes0, calls, moves,
                    written, stale, lookups, substVars >>

\* The generator lists the directory D for its subdirectories.
Descend(D) ==
    /\ InLoop
    /\ gen.yielded = {}
    /\ D \in gen.toDescend
    /\ IF IsDir(nodes, D)
       THEN /\ gen' = [gen EXCEPT !.toDescend = @ \ { D },
                                  !.toSelect = @ \cup Subdirectories(D)]
            /\ UNCHANGED << pc, err >>
       ELSE \E swallowed \in BOOLEAN :
              IF swallowed
              THEN /\ gen' = [gen EXCEPT !.toDescend = @ \ { D }]
                   /\ UNCHANGED << pc, err >>
              ELSE /\ pc' = "failed"
                   /\ err' = "FileNotFoundError"
                   /\ UNCHANGED gen
    /\ UNCHANGED << finished, args, cwdName, git, project_info, nodes, nodes0, calls,
                    moves, written, stale, lookups, substVars >>

\* Lines 123-125: the body of the first loop for the yielded entry child.
VisitContent(child) ==
    /\ pc = "content"
    /\ child \in gen.yielded
    /\ LET n == Resolve(nodes, child)
           selected == /\ ~StartsWithDot(Join(child))
                       /\ n # Missing
                       /\ nodes[n].kind = "file"
                       /\ Suffix(child[Len(child)]) # << ".py" >>
           done == IF selected THEN update_file(nodes, n, project_info)
                   ELSE [raised |-> "none", nodes |-> nodes]
       IN  /\ nodes' = done.nodes
           /\ written' = IF selected /\ done.raised = "none"
                         THEN written \cup { n } ELSE written
           /\ IF done.raised # "none"
              THEN pc' = "failed" /\ err' = done.raised /\ UNCHANGED gen
              ELSE /\ gen' = [gen EXCEPT !.yielded = @ \ { child }]
                   /\ UNCHANGED << pc, err >>
    /\ UNCHANGED << finished, args, cwdName, git, project_info, nodes0, calls, moves,
                    stale, lookups, substVars >>

\* The first loop is over; line 129 creates the generator of the second.
EndContent ==
    /\ pc = "content"
    /\ gen.toSelect = {} /\ gen.toDescend = {} /\ gen.yielded = {}
    /\ pc' = "path"
    /\ gen' = NewGen
    /\ finished' = finished \cup { "content" }
    /\ UNCHANGED << args, cwdName, git, project_info, err, nodes, nodes0, calls,
                    moves, written, stale, lookups, substVars >>

\* Line 133, target_path != child: target_path is a str and child a Path,
\* and values of different types are never equal.
Differs(target_path, child) ==
    [type |-> "str", text |-> target_path] # [type |-> "Path", text |-> Join(child)]

\* Lines 129-134: the body of the second loop for the yielded entry child.
VisitPath(child) ==
    /\ pc = "path"
    /\ child \in gen.yielded
    /\ LET n == Resolve(nodes, child)
           target_path == update_placeholders(Join(child), project_info)
           renames == ~StartsWithDot(Join(child)) /\ Differs(target_path, child)
           done == IF renames THEN Rename(nodes, child, target_path)
                   ELSE [raised |-> "none", nodes |-> nodes]
       IN  /\ nodes' = done.nodes
           /\ calls' = IF renames /\ n # Missing
                       THEN [calls EXCEPT ![n] = @ + 1] ELSE calls
           /\ stale' = IF renames /\ n = Missing THEN stale \cup { child } ELSE stale
           /\ moves' = IF renames /\ n # Missing /\ done.raised = "none"
                          /\ PathOf(done.nodes, n) # PathOf(nodes, n)
                       THEN [moves EXCEPT ![n] = @ + 1] ELSE moves
           /\ IF done.raised # "none"
              THEN pc' = "failed" /\ err' = done.raised /\ UNCHANGED gen
              ELSE /\ gen' = [gen EXCEPT !.yielded = @ \ { child }]
                   /\ UNCHANGED << pc, err >>
    /\ UNCHANGED << finished, args, cwdName, git, project_info, nodes0, written, lookups,
                    substVars >>

\* The second loop is over.
EndPath ==
    /\ pc = "path"
    /\ gen.toSelect = {} /\ gen.toDescend = {} /\ gen.yielded = {}
    /\ pc' = "unlink"
    /\ finished' = finished \cup { "path" }
    /\ UNCHANGED << args, cwdName, git, project_info, err, nodes, nodes0, gen, calls,
                    moves, written, stale, lookups, substVars >>

\* Line 138 placed in a finally clause: reached after a failure too.
AtSelfDestructOrFailed == pc \in { "unlink", "failed" }

\* Line 138 is reached only by falling out of the second loop.
AtSelfDestruct == pc = "unlink"

\* Line 138: Path(__file__).unlink()
SelfDestruct ==
    /\ AtSelfDestruct
    /\ LET n == Resolve(nodes, ScriptPath) IN
       IF n = Missing
       THEN pc' = "failed" /\ err' = "FileNotFoundError" /\ UNCHANGED nodes
       ELSE /\ nodes' = [nodes EXCEPT ![n].alive = FALSE]
            /\ pc' = "done"
            /\ UNCHANGED err
    /\ UNCHANGED << finished, args, cwdName, git, project_info, nodes0, gen, calls, moves,
                    written, stale, lookups, substVars >>

Next ==
    \/ AssignNames
    \/ AssignUserName
    \/ AssignUserEmail
    \/ \E D \in gen.toSelect : Select(D)
    \/ \E D \in gen.toDescend : Descend(D)
    \/ \E child \in gen.yielded : VisitContent(child)
    \/ EndContent
    \/ \E child \in gen.yielded : VisitPath(child)
    \/ EndPath
    \/ SelfDestruct

-----------------------------------------------------------------------------
(* The runs: arguments, environments and trees *)

\* Deepest chain of nested directories in the trees.
MaxDepth == 2

File(parent, name, data) ==
    [parent |-> parent, name |-> name, kind |-> "file", data |-> data, alive |-> TRUE]

Dir(parent, name) ==
    [parent |-> parent, name |-> name, kind |-> "dir", data |-> << >>, alive |-> TRUE]

ReadmeText ==
    << "Welcome to " >> \o Token("project_name") \o << ", by " >> \o Token("user_name")

\* The names the directories of a tree are drawn from: plain, hidden, and
\* holding a token.
DirNames ==
    { << "src" >>, << ".", "cache" >>, Token("package_name"), Token("project_name") }

\* The file at the bottom of the chain: its name and its contents.
Leaves ==
    { << << "main", ".py" >>, Token("project_name") >>,
      << Token("project_name") \o << ".txt" >>, Token("project_name") >>,
      << Token("user_name") \o << ".txt" >>, Binary >> }

\* README.md and init_repo.py in the working directory, a chain of nested
\* directories named dirs with the file leaf at its bottom and, with
\* occupied, a non-empty directory "pkg" beside the last directory of the
\* chain and a file "demo.txt" beside the leaf: names that a substituted
\* name may collide with.
Tree(dirs, leaf, occupied) ==
    LET k == Len(dirs)
        above == IF k = 1 THEN 0 ELSE k + 1
    IN  << File(0, << "README", ".md" >>, ReadmeText),
           File(0, ScriptPath[1], Token("project_name")) >>
        \o [i \in 1..k |-> Dir(IF i = 1 THEN 0 ELSE i + 1, dirs[i])]
        \o << File(k + 2, leaf[1], leaf[2]) >>
        \o ( IF occupied
             THEN << Dir(above, << "pkg" >>),
                     File(k + 4, << "old", ".txt" >>, << "x" >>),
                     File(k + 2, << "demo", ".txt" >>, << "x" >>) >>
             ELSE << >> )

Trees ==
    { Tree(dirs, leaf, occupied) :
        dirs \in UNION { [1..k -> DirNames] : k \in 1..MaxDepth },
        leaf \in Leaves,
        occupied \in BOOLEAN }

\* Scenario 3 of the specification: src/{package_name}/main.py
DefaultTree == Tree(<< << "src" >>, Token("package_name") >>,
                    << << "main", ".py" >>, Token("project_name") >>, FALSE)

OptionalStrings(S) == { None } \cup S

ArgSets ==
    [project_name : OptionalStrings({ << >>, << "demo" >> }),
     package_name : OptionalStrings({ << "pkg" >> }),
     user_name    : OptionalStrings({ << "Jane" >> }),
     user_email   : OptionalStrings({ << "j@x" >> })]

\* None: the key is not set and git exits with status 1.
GitConfigs ==
    [GitKeys -> { None }] \cup
    { [k \in GitKeys |-> IF k = "user.name" THEN n ELSE e] :
        n \in OptionalStrings({ << "Git", " ", "User", "\n" >>, << "\n" >> }),
        e \in OptionalStrings({ << "g@x", "\n" >>, << InvalidByte >> }) }

Environments ==
    { [installed |-> FALSE, config |-> [k \in GitKeys |-> None]] } \cup
    { [installed |-> TRUE, config |-> c] : c \in GitConfigs }

CwdNames == { << "My", "-", "Project" >>, << >> }

RunStart(tree) ==
    /\ nodes = tree
    /\ nodes0 = tree
    /\ project_info = << >>
    /\ pc = "start"
    /\ err = "none"
    /\ gen = NoGen
    /\ calls = [n \in DOMAIN tree |-> 0]
    /\ moves = [n \in DOMAIN tree |-> 0]
    /\ written = {}
    /\ stale = {}
    /\ lookups = {}
    /\ finished = {}
    /\ string = None /\ order = << >> /\ once = None /\ twice = None
    /\ permuted = None /\ sphase = "run"

\* Every combination of arguments, directory name and git environment, on
\* the tree of scenario 3.
ResolveInit ==
    /\ args \in ArgSets
    /\ cwdName \in CwdNames
    /\ git \in Environments
    /\ RunStart(DefaultTree)

\* Every tree, with all four arguments given and git configured.
TreeInit ==
    /\ args = [project_name |-> << "demo" >>, package_name |-> << "pkg" >>,
               user_name |-> << "Jane" >>, user_email |-> << "j@x" >>]
    /\ cwdName = << "My", "-", "Project" >>
    /\ git = [installed |-> TRUE,
              config |-> [k \in GitKeys |-> << "g@x", "\n" >>]]
    /\ \E tree \in Trees : RunStart(tree)

Init == ResolveInit \/ TreeInit

Spec == Init /\ [][Next]_vars

-----------------------------------------------------------------------------
(* Properties of the run *)

\* The path the entry n had when the run started.
OrigPath(n) == PathOf(nodes0, n)

\* Hidden as the specification has it: some name of the path starts with a dot.
Hidden(path) == \E i \in 1..Len(path) : StartsWithDot(path[i])

\* The path with every token replaced.
Substituted(path) == Split(update_placeholders(Join(path), project_info))

PathPassOver == "path" \in finished

\* No rename has replaced an entry that was already there (os.rename puts
\* the source in the place of an existing file or empty directory).
NothingReplaced ==
    \A n \in DOMAIN nodes : nodes[n].alive \/ n = Resolve(nodes0, ScriptPath)

\* What C1 asks of the entry n once the path pass is over: it is still there
\* and lies under its fully substituted path, and if its own name held a
\* token exactly one rename changed that name.
RenamedAndReachable(n) ==
    /\ nodes[n].alive
    /\ PathOf(nodes, n) = Substituted(OrigPath(n))
    /\ HasToken(nodes0[n].name) => moves[n] = 1

\* C1 as stated: the path pass never calls rename on a path that no entry
\* has any more, and no entry has its path changed by more than one rename of
\* its own; when the pass has run to its end, every entry that is not hidden
\* and whose path held a token is still there and lies under its fully
\* substituted path, and if its own name held a token exactly one rename
\* changed that name.
C1_RenamedOnceAndReachable ==
    sphase = "run" =>
        /\ stale = {}
        /\ \A n \in DOMAIN nodes : moves[n] <= 1
        /\ PathPassOver =>
             \A n \in DOMAIN nodes :
                 (~Hidden(OrigPath(n)) /\ HasToken(Join(OrigPath(n)))) =>
                     RenamedAndReachable(n)

\* The part of C1 about ancestors, which the code keeps: the same statement
\* for the runs in which no rename replaced an entry.  The generator lists a
\* directory for descent only after its entries were renamed, so the paths
\* it yields below a renamed directory are the new ones.
RenamedOnceAndReachableUnlessReplaced ==
    sphase = "run" =>
        /\ stale = {}
        /\ \A n \in DOMAIN nodes : moves[n] <= 1
        /\ (PathPassOver /\ NothingReplaced) =>
             \A n \in DOMAIN nodes :
                 (~Hidden(OrigPath(n)) /\ HasToken(Join(OrigPath(n)))) =>
                     RenamedAndReachable(n)

\* C2 as stated: an entry with a hidden name anywhere in its path keeps its
\* contents and its name, and no rename is called on it.
C2_HiddenUntouched ==
    sphase = "run" =>
        \A n \in DOMAIN nodes :
            Hidden(OrigPath(n)) =>
                /\ nodes[n].data = nodes0[n].data
                /\ nodes[n].name = nodes0[n].name

\* The field of project_info a git key is the default of, and its fallback.
FieldOf(key) == IF key = "user.name" THEN "user_name" ELSE "user_email"

FallbackOf(key) == IF key = "user.name" THEN FallbackName ELSE FallbackEmail

\* C3 as stated: once param_from_git has run for a key that makes git exit
\* with a non-zero status, and the field has no override, nothing was raised
\* and the field holds its literal fallback.
C3_NonZeroFallsBack ==
    sphase = "run" =>
        \A key \in lookups :
            (git.installed /\ git.config[key] = None /\ args[FieldOf(key)] = None) =>
                /\ err # "CalledProcessError"
                /\ FieldOf(key) \in DOMAIN project_info
                /\ project_info[FieldOf(key)] = FallbackOf(key)

ScriptExists == Resolve(nodes, ScriptPath) # Missing

\* C4: the script is deleted only when both loops have run to their end and
\* nothing was raised; a run that failed leaves the script in place.
C4_SelfDestructLast ==
    sphase = "run" =>
        /\ ~ScriptExists => (finished = { "content", "path" } /\ err = "none")
        /\ pc = "failed" => ScriptExists

\* C4, the case: a run that went through both loops and deleted the script.
C4_Witness ==
    /\ pc = "done"
    /\ ~ScriptExists
    /\ written # {}
    /\ \E n \in DOMAIN nodes : moves[n] = 1

\* C5: when git cannot be started the run fails with FileNotFoundError in
\* parameter resolution, and the tree is the tree the run started with.
C5_AbortBeforeMutation ==
    (sphase = "run" /\ ~git.installed) =>
        /\ pc \in { "start", "user_name", "failed" }
        /\ pc = "failed" => err = "FileNotFoundError"
        /\ nodes = nodes0
        /\ written = {}
        /\ \A n \in DOMAIN nodes : calls[n] = 0

\* C5, the case: git is not installed and the run has ended.
C5_Witness ==
    /\ sphase = "run"
    /\ ~git.installed
    /\ pc = "failed"
    /\ "user.name" \in lookups

\* C6 as stated: no rename is called on an entry that is not hidden and
\* whose path holds no token.
C6_NoRenameWithoutToken ==
    sphase = "run" =>
        \A n \in DOMAIN nodes :
            (~Hidden(OrigPath(n)) /\ ~HasToken(Join(OrigPath(n)))) => calls[n] = 0

ContentPassBegins == pc = "content" /\ gen = NewGen

\* C8 as stated: when the content pass begins all four keys are there and
\* every value is a non-empty string.
C8_AllNonEmpty ==
    ContentPassBegins =>
        /\ DOMAIN project_info = KeySet
        /\ \A k \in KeySet : project_info[k] # None /\ project_info[k] # << >>

\* What a field is resolved from when no argument is given for it.
DefaultSource(k) ==
    CASE k = "project_name" -> Lower(cwdName)
      [] k = "package_name" -> Replace(project_info["project_name"], << "-" >>, << "_" >>)
      [] k = "user_name"    -> Strip(git.config["user.name"])
      [] k = "user_email"   -> Strip(git.config["user.email"])

\* C8, amended: when the content pass begins all four keys are there and
\* every value is a string; a value is empty exactly when the argument given
\* for it is the empty string or, no argument being given, what it defaults
\* to (the lowercased directory name, the package name derived from an empty
\* project name, the stripped output of git) is empty.
C8_AllPresentEmptyOnlyFromEmpty ==
    ContentPassBegins =>
        /\ DOMAIN project_info = KeySet
        /\ \A k \in KeySet :
             /\ project_info[k] # None
             /\ project_info[k] = << >> <=>
                    \/ args[k] = << >>
                    \/ args[k] = None /\ DefaultSource(k) = << >>

\* C8, the case: the content pass begins with no argument given, and every
\* value came from a default.
C8_Witness ==
    /\ ContentPassBegins
    /\ \A k \in KeySet : args[k] = None
    /\ project_info["project_name"] = << "my", "-", "project" >>
    /\ project_info["package_name"] = << "my", "_", "project" >>
    /\ project_info["user_name"] = << "Git", " ", "User" >>

\* The run failed before project_info was complete.
FailedInResolution == pc = "failed" /\ DOMAIN project_info # KeySet

\* C10 as stated: with user_name and user_email both given, param_from_git
\* is not invoked and the run does not fail in parameter resolution.
C10_LookupNotConsulted ==
    (sphase = "run" /\ args.user_name # None /\ args.user_email # None) =>
        /\ lookups = {}
        /\ ~FailedInResolution

-----------------------------------------------------------------------------
(* update_placeholders on bounded inputs *)

\* Longest input string, in pieces.
MaxPieces == 2

\* The pieces input strings are built from: the four tokens, the tail of a
\* token, an opening brace and plain text.
Pieces ==
    { Token(k) : k \in KeySet } \cup { << "_name", "}" >>, << "{" >>, << "x" >> }

RECURSIVE Flatten(_)
Flatten(ps) == IF ps = << >> THEN << >> ELSE Head(ps) \o Flatten(Tail(ps))

InputStrings ==
    { Flatten(ps) : ps \in UNION { [1..n -> Pieces] : n \in 0..MaxPieces } }

\* The values the four keys are drawn from.  Some hold a whole token, some
\* the head of one, some the text of a key without braces, one is empty.
InputValues(k) ==
    CASE k = "project_name" -> { << "P" >>, Token("user_name"), << "user", "_name" >> }
      [] k = "package_name" -> { << "K" >> }
      [] k = "user_name"    -> { << "U" >>, << "{", "project" >> }
      [] k = "user_email"   -> { << "E" >>, << >> }

InputInfos ==
    { f \in [KeySet -> UNION { InputValues(k) : k \in KeySet }] :
        \A k \in KeySet : f[k] \in InputValues(k) }

\* Every ordering of the four keys.
KeyOrders ==
    { q \in [1..Len(Keys) -> KeySet] : \A k \in KeySet : \E i \in 1..Len(Keys) : q[i] = k }

SubstInit ==
    /\ string \in InputStrings
    /\ project_info \in InputInfos
    /\ order = << >>
    /\ once = None
    /\ twice = None
    /\ permuted = None
    /\ sphase = "in"
    /\ args = None /\ cwdName = None /\ git = None
    /\ pc = "idle" /\ err = "none"
    /\ nodes = << >> /\ nodes0 = << >> /\ gen = NoGen
    /\ calls = << >> /\ moves = << >> /\ written = {} /\ stale = {} /\ lookups = {}
    /\ finished = {}

\* string = update_placeholders(string, project_info)
Apply ==
    /\ sphase = "in"
    /\ once' = update_placeholders(string, project_info)
    /\ sphase' = "applied"
    /\ UNCHANGED << runVars, project_info, string, order, twice, permuted >>

\* A second call on the result of the first.
Reapply ==
    /\ sphase = "applied"
    /\ twice' = update_placeholders(once, project_info)
    /\ sphase' = "reapplied"
    /\ UNCHANGED << runVars, project_info, string, order, once, permuted >>

\* The same replacements with the keys taken in another order.
Reorder ==
    /\ sphase = "applied"
    /\ \E q \in KeyOrders :
          /\ order' = q
          /\ permuted' = ReplaceInOrder(string, project_info, q)
    /\ sphase' = "reordered"
    /\ UNCHANGED << runVars, project_info, string, once, twice >>

SubstNext == Apply \/ Reapply \/ Reorder

SubstSpec == SubstInit /\ [][SubstNext]_vars

NoValueHasToken == \A k \in KeySet : ~HasToken(project_info[k])

NoValueHasBrace == \A k \in KeySet : ~HasBrace(project_info[k])

\* C7 as stated: whenever no value of project_info contains one of the four
\* tokens, a second call of update_placeholders changes nothing.
C7_IdempotentWithoutTokenValues ==
    (sphase = "reapplied" /\ NoValueHasToken) => twice = once

\* C7, amended: whenever no value of project_info contains a brace and every
\* brace of the input string belongs to one of the four tokens, a second call
\* of update_placeholders changes nothing.
C7_IdempotentOnTemplates ==
    (sphase = "reapplied" /\ NoValueHasBrace /\ BracesOnlyInTokens(string))
        => twice = once

\* C7, the case: a template that holds the same token twice has been
\* substituted twice with brace-free values, and the first call changed it.
C7_Witness ==
    /\ sphase = "reapplied"
    /\ NoValueHasBrace
    /\ BracesOnlyInTokens(string)
    /\ \E k \in KeySet : string = Token(k) \o Token(k)
    /\ once # string

\* C9 as stated: for every string and every project_info, the replacements
\* applied in any order of the keys give the result of the mapping order.
C9_OrderIrrelevant ==
    sphase = "reordered" => permuted = once

\* C9, amended: whenever no value of project_info contains a brace and every
\* brace of the input string belongs to one of the four tokens, the
\* replacements applied in any order of the keys give the result of the
\* mapping order.
C9_OrderIrrelevantOnTemplates ==
    (sphase = "reordered" /\ NoValueHasBrace /\ BracesOnlyInTokens(string))
        => permuted = once

\* C9, the case: a template holding two different tokens has been
\* substituted in the reverse of the mapping order.
C9_Witness ==
    /\ sphase = "reordered"
    /\ NoValueHasBrace
    /\ string = Token("user_name") \o Token("project_name")
    /\ order = [i \in 1..Len(Keys) |-> Keys[Len(Keys) + 1 - i]]
    /\ permuted # string

====
